---- MODULE Spec2Model ----
(***************************************************************************)
(* A model of tools/cconv.py, the colour palette converter.                *)
(*                                                                         *)
(* Python strings are sequences of one-character strings, None is the      *)
(* value None below, and a float is the exact decimal it stands for,       *)
(* scaled to an integer (see luminance).                                   *)
(***************************************************************************)
EXTENDS Integers, Sequences, FiniteSets, TLC

VARIABLES
    tok,          \* SpecHex: the string handed to normalize_hex / extract_hex
    norm,         \* SpecHex: normalize_hex(tok)
    ext,          \* SpecHex: extract_hex(tok)
    entry,        \* which function the run entered: "main" or "convert_file"
    pc,           \* position of the run
    input_exists, \* Path(input_file).exists()
    is_json,      \* input_path.suffix.lower() == ".json"
    cut,          \* the --cut flag
    lines,        \* f.readlines() of a text input
    items,        \* json.load(f) of a JSON input (a list)
    i,            \* enumerate(..., 1) position of the parser loop
    colors,       \* the parser's list of {"id", "name", "color"}
    skipped,      \* positions at which the parser loop took a `continue`
    ci,           \* position of the conversion loop in colors
    result,       \* convert_file's list of color_dict
    out_opened,   \* open(output_file, "w") has been executed
    out_file,     \* what json.dump wrote (meaningful once out_opened)
    ret,          \* convert_file's return value ("unset" until it returns)
    exit_code,    \* main's return value (-1 until it returns)
    rgb_in        \* SpecRgb: the triple the input colour was rendered from

hexVars == <<tok, norm, ext>>
runVars == <<entry, pc, input_exists, is_json, cut, lines, items, i, colors,
             skipped, ci, result, out_opened, out_file, ret, exit_code, rgb_in>>
vars == <<hexVars, runVars>>

----------------------------------------------------------------------------
(* Bounds of the model. *)

MaxTokLen == 7
MaxLines == 3
MaxItems == 2

----------------------------------------------------------------------------
(* Characters and strings. *)

None == <<"<None>">>

Min(a, b) == IF a < b THEN a ELSE b

HexLower == <<"0", "1", "2", "3", "4", "5", "6", "7", "8", "9",
              "a", "b", "c", "d", "e", "f">>

HexUpperLetters == {"A", "B", "C", "D", "E", "F"}

LowerHexChars == {HexLower[k] : k \in 1..16}

\* The character class [0-9A-Fa-f] of normalize_hex's regular expression.
IsHexDigit(c) == c \in LowerHexChars \cup HexUpperLetters

\* str.lower() on one character (only hex digits ever reach it).
ToLower(c) ==
    CASE c = "A" -> "a" [] c = "B" -> "b" [] c = "C" -> "c"
      [] c = "D" -> "d" [] c = "E" -> "e" [] c = "F" -> "f"
      [] OTHER -> c

Lower(s) == [k \in 1..Len(s) |-> ToLower(s[k])]

\* "".join(c * 2 for c in h)
Doubled(h) == [k \in 1..(2 * Len(h)) |-> h[(k + 1) \div 2]]

\* Python truthiness of a str-or-None value.
Truthy(v) == v # None /\ v # <<>>

\* str.lstrip(chars)
RECURSIVE LStrip(_, _)
LStrip(s, chars) ==
    IF s # <<>> /\ Head(s) \in chars THEN LStrip(Tail(s), chars) ELSE s

----------------------------------------------------------------------------
(* normalize_hex and extract_hex. *)

normalize_hex_keep_case(color_str) ==
    LET hex_clean == SelectSeq(color_str, IsHexDigit) IN
    IF Len(hex_clean) = 3 THEN <<"#">> \o Doubled(hex_clean)
    ELSE IF Len(hex_clean) # 6 THEN None
    ELSE <<"#">> \o hex_clean

normalize_hex(color_str) ==
    LET hex_clean == SelectSeq(color_str, IsHexDigit) IN
    IF Len(hex_clean) = 3 THEN <<"#">> \o Lower(Doubled(hex_clean))
    ELSE IF Len(hex_clean) # 6 THEN None
    ELSE <<"#">> \o Lower(hex_clean)

ExtractStrip == {";", "#", "|", ":", " ", "\t"}

\* A loop that tries the prefixes shortest first.
RECURSIVE ExtractLoopUp(_, _, _)
ExtractLoopUp(text, k, n) ==
    IF k > n THEN None
    ELSE LET hex_color == normalize_hex(SubSeq(text, 1, k)) IN
         IF Truthy(hex_color) THEN hex_color ELSE ExtractLoopUp(text, k + 1, n)

ExtractLoopShortestFirst(text, n) == ExtractLoopUp(text, 1, n)

\* for i in range(n, 0, -1): the first prefix text[:i] that normalizes.
RECURSIVE ExtractLoop(_, _)
ExtractLoop(text, n) ==
    IF n < 1 THEN None
    ELSE LET hex_color == normalize_hex(SubSeq(text, 1, n)) IN
         IF Truthy(hex_color) THEN hex_color ELSE ExtractLoop(text, n - 1)

extract_hex(t) ==
    LET text == LStrip(t, ExtractStrip) IN
    ExtractLoop(text, Min(7, Len(text)))

----------------------------------------------------------------------------
(* Helpers of the parsers. *)

Whitespace == {" ", "\t", "\n"}

RECURSIVE RStrip(_, _)
RStrip(s, chars) ==
    IF s # <<>> /\ s[Len(s)] \in chars
    THEN RStrip(SubSeq(s, 1, Len(s) - 1), chars)
    ELSE s

\* str.strip()
Strip(s) == RStrip(LStrip(s, Whitespace), Whitespace)

\* str.split(): the maximal runs of non-whitespace characters.
RECURSIVE SplitFrom(_, _, _)
SplitFrom(s, cur, acc) ==
    IF s = <<>> THEN (IF cur = <<>> THEN acc ELSE Append(acc, cur))
    ELSE IF Head(s) \in Whitespace
         THEN SplitFrom(Tail(s), <<>>, IF cur = <<>> THEN acc ELSE Append(acc, cur))
         ELSE SplitFrom(Tail(s), Append(cur, Head(s)), acc)

Split(s) == SplitFrom(s, <<>>, <<>>)

\* " ".join(parts)
RECURSIVE Join(_)
Join(parts) ==
    IF parts = <<>> THEN <<>>
    ELSE IF Len(parts) = 1 THEN parts[1]
    ELSE parts[1] \o <<" ">> \o Join(Tail(parts))

DecimalDigit == <<"0", "1", "2", "3", "4", "5", "6", "7", "8", "9">>

\* str(n) for an int n >= 0
RECURSIVE Decimal(_)
Decimal(n) ==
    IF n < 10 THEN <<DecimalDigit[n + 1]>>
    ELSE Decimal(n \div 10) \o <<DecimalDigit[(n % 10) + 1]>>

\* f"{n:03d}": zero-padded to a width of at least 3
Pad3(n) ==
    LET d == Decimal(n) IN
    [k \in 1..(3 - Len(d)) |-> "0"] \o d

----------------------------------------------------------------------------
(* parse_text_file: the body of its loop for one line. *)

\* A loop body that numbers the records by the count of accepted colours.
TextId_by_count(idx, sofar) == Pad3(Len(sofar) + 1)

\* The id of the record of line idx: f"{i:03d}".
TextId(idx, sofar) == Pad3(idx)

NoRecord == [id |-> <<>>, name |-> <<>>, color |-> <<>>]

Skip == [kind |-> "skip", rec |-> NoRecord]
Raise == [kind |-> "raise", rec |-> NoRecord]
Emit(r) == [kind |-> "rec", rec |-> r]

\* line.startswith("#")
StartsWithHash(line) == line # <<>> /\ line[1] = "#"

TextLine(raw, idx, sofar) ==
    LET line == Strip(raw) IN
    IF line = <<>> \/ StartsWithHash(line) THEN Skip
    ELSE LET parts == Split(line) IN
         IF parts = <<>> THEN Skip
         ELSE LET hex_color == extract_hex(parts[1]) IN
              IF ~Truthy(hex_color) THEN Skip
              ELSE LET name_parts == Tail(parts)
                       color_name == IF name_parts # <<>> THEN Join(name_parts)
                                     ELSE hex_color
                   IN  Emit([id |-> TextId(idx, sofar), name |-> color_name,
                             color |-> hex_color])

----------------------------------------------------------------------------
(* parse_json_file: JSON values and the body of its loop for one item.     *)
(* A JSON value is a record of its type t and, by type, its string s, its   *)
(* number n or (a list, of zeros) its length n. A key an item lacks holds   *)
(* JAbsent.                                                                 *)

JAbsent == [t |-> "absent", s |-> <<>>, n |-> 0]
JNull == [t |-> "null", s |-> <<>>, n |-> 0]
JStr(s) == [t |-> "str", s |-> s, n |-> 0]
JNum(n) == [t |-> "num", s |-> <<>>, n |-> n]
JList(n) == [t |-> "list", s |-> <<>>, n |-> n]

\* Python truthiness of a JSON value (None for a missing one).
JTruthy(v) ==
    CASE v.t = "str" -> v.s # <<>>
      [] v.t = "num" -> v.n # 0
      [] v.t = "list" -> v.n > 0
      [] OTHER -> FALSE

\* str(v)
RECURSIVE ZeroList(_)
ZeroList(n) ==
    IF n = 0 THEN <<>>
    ELSE IF n = 1 THEN <<"0">>
    ELSE <<"0", ",", " ">> \o ZeroList(n - 1)

Str(v) ==
    CASE v.t = "str" -> v.s
      [] v.t = "num" -> Decimal(v.n)
      [] v.t = "list" -> <<"[">> \o ZeroList(v.n) \o <<"]">>
      [] OTHER -> <<"N", "o", "n", "e">>

\* for key in ["color", "hex", "value"]: the first key present, else None
ColorValue(item) ==
    IF item.color.t # "absent" THEN item.color
    ELSE IF item.hex.t # "absent" THEN item.hex
    ELSE IF item.value.t # "absent" THEN item.value
    ELSE JNull

\* item.get(key, default), then str()
GetStr(v, default) == IF v.t # "absent" THEN Str(v) ELSE default

JsonItem(item, idx) ==
    IF item.t # "dict" THEN Skip
    ELSE LET color_value == ColorValue(item) IN
         IF ~JTruthy(color_value) THEN Skip
         \* re.sub on a value that is no str raises TypeError
         ELSE IF color_value.t # "str" THEN Raise
         ELSE LET hex_color == normalize_hex(color_value.s) IN
              IF ~Truthy(hex_color) THEN Skip
              ELSE Emit([id |-> GetStr(item.id, Pad3(idx)),
                         name |-> GetStr(item.name, hex_color),
                         color |-> hex_color])

----------------------------------------------------------------------------
(* The conversions convert_file applies to one parsed colour.               *)

\* int(c, 16) of one digit: both cases are accepted
HexValue(c) == CHOOSE v \in 0..15 : HexLower[v + 1] = ToLower(c)

\* int(h[a:a+2], 16)
Int16(two) == 16 * HexValue(two[1]) + HexValue(two[2])

\* A hex_to_rgb whose last slice starts one character early.
hex_to_rgb_early_slice(hex_str) ==
    LET h0 == LStrip(hex_str, {"#"})
        h == IF Len(h0) = 3 THEN Doubled(h0) ELSE h0
    IN  <<Int16(SubSeq(h, 1, 2)), Int16(SubSeq(h, 3, 4)), Int16(SubSeq(h, 4, 5))>>

hex_to_rgb(hex_str) ==
    LET h0 == LStrip(hex_str, {"#"})
        h == IF Len(h0) = 3 THEN Doubled(h0) ELSE h0
    IN  <<Int16(SubSeq(h, 1, 2)), Int16(SubSeq(h, 3, 4)), Int16(SubSeq(h, 5, 6))>>

\* The nearest integer to a / b (a >= 0, b > 0), for quotients never halfway.
RoundDiv(a, b) == (2 * a + b) \div (2 * b)

\* round(x / 255.0, 4), in ten-thousandths. x * 10000 / 255 is never within
\* 0.001 of a half, so the double's error cannot change the rounding.
rgb_norm(rgb) == [k \in 1..3 |-> RoundDiv(rgb[k] * 10000, 255)]

\* rgb_to_hsl, rgb_to_hsv, rgb_to_lab and rgb_to_cmyk are pure float functions
\* of rgb that raise for no triple of 0..255; their values are left
\* uninterpreted.
rgb_to_hsl(rgb) == <<"rgb_to_hsl", rgb>>
rgb_to_hsv(rgb) == <<"rgb_to_hsv", rgb>>
rgb_to_lab(rgb) == <<"rgb_to_lab", rgb>>
rgb_to_cmyk(rgb) == <<"rgb_to_cmyk", rgb>>

\* 0.2126 * rgb[0] + 0.7152 * rgb[1] + 0.0722 * rgb[2], in ten-thousandths
WeightedSum(rgb) == 2126 * rgb[1] + 7152 * rgb[2] + 722 * rgb[3]

\* round(sum, 1), in tenths. Off a tie the double rounds as the exact sum
\* does; at an exact tie (sum = q.x5) the double lies on either side of it,
\* so both neighbours are admitted.
LuminanceTenths(rgb) ==
    LET q == WeightedSum(rgb) \div 1000
        m == WeightedSum(rgb) % 1000
    IN  IF m < 500 THEN {q} ELSE IF m > 500 THEN {q + 1} ELSE {q, q + 1}

\* A comparison that also takes a sum of exactly 128 as light.
is_light_at_128(rgb) == WeightedSum(rgb) >= 1280000

\* sum > 128. For every triple of 0..255 the double sum lies on the same side
\* of 128 as the exact sum (the 19 triples whose exact sum is 128 give
\* 128.0 or 127.99999999999999).
is_light(rgb) == WeightedSum(rgb) > 1280000

\* A dict is the sequence of its <<key, value>> pairs in insertion order.
HasKey(d, k) == \E j \in 1..Len(d) : d[j][1] = k

Get(d, k) == d[CHOOSE j \in 1..Len(d) : d[j][1] = k][2]

Keys(d) == [j \in 1..Len(d) |-> d[j][1]]

\* d[k] = v
DictSet(d, k, v) ==
    IF HasKey(d, k)
    THEN [d EXCEPT ![CHOOSE j \in 1..Len(d) : d[j][1] = k] = <<k, v>>]
    ELSE Append(d, <<k, v>>)

\* d.update(e)
RECURSIVE DictUpdate(_, _)
DictUpdate(d, e) ==
    IF e = <<>> THEN d
    ELSE DictUpdate(DictSet(d, Head(e)[1], Head(e)[2]), Tail(e))

BaseFields(item, rgb) ==
    << <<"id", item.id>>, <<"name", item.name>>, <<"hex", item.color>>,
       <<"rgb", rgb>>, <<"rgb_norm", rgb_norm(rgb)>>,
       <<"hsl", rgb_to_hsl(rgb)>> >>

ExtendedFields(rgb, lum) ==
    << <<"hsv", rgb_to_hsv(rgb)>>, <<"lab", rgb_to_lab(rgb)>>,
       <<"cmyk", rgb_to_cmyk(rgb)>>, <<"luminance", lum>>,
       <<"is_light", is_light(rgb)>> >>

\* A loop body that attaches the extended fields whatever cut is.
color_dict_always_full(item, cutflag, lum) ==
    LET rgb == hex_to_rgb(item.color) IN
    DictUpdate(BaseFields(item, rgb), ExtendedFields(rgb, lum))

\* The body of convert_file's loop for one parsed colour; lum is the rounded
\* luminance.
color_dict(item, cutflag, lum) ==
    LET rgb == hex_to_rgb(item.color) IN
    IF ~cutflag THEN DictUpdate(BaseFields(item, rgb), ExtendedFields(rgb, lum))
    ELSE BaseFields(item, rgb)

\* A check that lets an empty list of colours through.
NoColors_never(c) == FALSE

\* `not colors`
NoColors(c) == c = <<>>

----------------------------------------------------------------------------
(* The inputs of a run: the lines of a text file, the items of a JSON file. *)

\* '#ff0000 Red Apple\n'
LineRedApple ==
    <<"#", "f", "f", "0", "0", "0", "0", " ", "R", "e", "d", " ", "A", "p",
      "p", "l", "e", "\n">>

\* '# a comment\n'
LineComment ==
    <<"#", " ", "a", " ", "c", "o", "m", "m", "e", "n", "t", "\n">>

\* 'fff Snow\n'
LineSnow ==
    <<"f", "f", "f", " ", "S", "n", "o", "w", "\n">>

\* '\n'
LineBlank ==
    <<"\n">>

\* 'zzz nothing\n'
LineNoColor ==
    <<"z", "z", "z", " ", "n", "o", "t", "h", "i", "n", "g", "\n">>

\* ' ;0b0F00\tTwo  Words \n'
LineSeparators ==
    <<" ", ";", "0", "b", "0", "F", "0", "0", "\t", "T", "w", "o", " ",
      " ", "W", "o", "r", "d", "s", " ", "\n">>

\* 'abcdefName\n'
LineGlued ==
    <<"a", "b", "c", "d", "e", "f", "N", "a", "m", "e", "\n">>

LineSamples == {LineRedApple, LineComment, LineSnow, LineBlank, LineNoColor,
                LineSeparators, LineGlued}

Dict(id, name, color, hex, value) ==
    [t |-> "dict", id |-> id, name |-> name, color |-> color, hex |-> hex,
     value |-> value]

\* An item of the list that is no mapping (a string, a number, a list).
NotADict ==
    [t |-> "other", id |-> JAbsent, name |-> JAbsent, color |-> JAbsent,
     hex |-> JAbsent, value |-> JAbsent]

ItemSamples ==
    { \* {"id": "r1", "name": "Red", "color": "#FF0000"}
      Dict(JStr(<<"r", "1">>), JStr(<<"R", "e", "d">>),
           JStr(<<"#", "F", "F", "0", "0", "0", "0">>), JAbsent, JAbsent),
      \* {"hex": "0b0"}
      Dict(JAbsent, JAbsent, JAbsent, JStr(<<"0", "b", "0">>), JAbsent),
      \* {"value": "00-ff-00", "id": 7, "name": null}
      Dict(JNum(7), JNull, JAbsent, JAbsent,
           JStr(<<"0", "0", "-", "f", "f", "-", "0", "0">>)),
      \* {"color": "12345", "hex": "fff"}
      Dict(JAbsent, JAbsent, JStr(<<"1", "2", "3", "4", "5">>),
           JStr(<<"f", "f", "f">>), JAbsent),
      \* {"color": "", "value": "fff"}
      Dict(JAbsent, JAbsent, JStr(<<>>), JAbsent, JStr(<<"f", "f", "f">>)),
      \* {"name": "NoColor"}
      Dict(JAbsent, JStr(<<"N", "o", "C", "o", "l", "o", "r">>), JAbsent,
           JAbsent, JAbsent),
      \* "ff0000"
      NotADict,
      \* {"color": null}
      Dict(JAbsent, JAbsent, JNull, JAbsent, JAbsent),
      \* {"color": 0}
      Dict(JAbsent, JAbsent, JNum(0), JAbsent, JAbsent),
      \* {"color": 255}
      Dict(JAbsent, JAbsent, JNum(255), JAbsent, JAbsent),
      \* {"color": [0, 0, 0]}
      Dict(JAbsent, JAbsent, JList(3), JAbsent, JAbsent),
      \* {"id": "", "name": "", "color": "abc"}
      Dict(JStr(<<>>), JStr(<<>>), JStr(<<"a", "b", "c">>), JAbsent, JAbsent) }

SeqsUpTo(S, n) == UNION {[1..k -> S] : k \in 0..n}

\* A long palette: 999 blank lines and a colour on line 1000.
LongFile == [k \in 1..1000 |-> IF k = 1000 THEN LineSnow ELSE LineBlank]

----------------------------------------------------------------------------
(* The run: main, convert_file and the two parsers, one loop iteration per  *)
(* step.                                                                    *)

NotStarted ==
    /\ i = 0 /\ colors = <<>> /\ skipped = {} /\ ci = 0 /\ result = <<>>
    /\ out_opened = FALSE /\ out_file = <<>> /\ ret = "unset"
    /\ exit_code = -1

IdleHex == tok = <<>> /\ norm = None /\ ext = None

Init ==
    /\ IdleHex
    /\ entry \in {"main", "convert_file"}
    /\ pc = entry
    /\ input_exists \in BOOLEAN
    /\ is_json \in BOOLEAN
    /\ cut \in BOOLEAN
    /\ lines \in (IF input_exists /\ ~is_json
                  THEN SeqsUpTo(LineSamples, MaxLines) \cup {LongFile}
                  ELSE {<<>>})
    /\ items \in (IF input_exists /\ is_json
                  THEN SeqsUpTo(ItemSamples, MaxItems) ELSE {<<>>})
    /\ rgb_in = <<0, 0, 0>>
    /\ NotStarted

\* main: the check of the input file.
MainCheckInput ==
    /\ pc = "main"
    /\ IF ~input_exists
       THEN pc' = "exit" /\ exit_code' = 1
       ELSE pc' = "convert_file" /\ UNCHANGED exit_code
    /\ UNCHANGED <<hexVars, entry, input_exists, is_json, cut, lines, items, i,
                   colors, skipped, ci, result, out_opened, out_file, ret,
                   rgb_in>>

\* convert_file: the check of the input file and the choice of the parser.
ConvertFileCheckInput ==
    /\ pc = "convert_file"
    /\ IF ~input_exists
       THEN pc' = "returned" /\ ret' = "False"
       ELSE /\ pc' = (IF is_json THEN "parse_json" ELSE "parse_text")
            /\ UNCHANGED ret
    /\ UNCHANGED <<hexVars, entry, input_exists, is_json, cut, lines, items, i,
                   colors, skipped, ci, result, out_opened, out_file,
                   exit_code, rgb_in>>

\* What one iteration of a parser loop does with its outcome.
ParserLoop(out) ==
    /\ i' = i + 1
    /\ pc' = (IF out.kind = "raise" THEN "raised" ELSE pc)
    /\ colors' = (IF out.kind = "rec" THEN Append(colors, out.rec) ELSE colors)
    /\ skipped' = (IF out.kind = "skip" THEN skipped \cup {i + 1} ELSE skipped)

\* parse_text_file: one iteration of the loop over the lines.
ParseTextLine ==
    /\ pc = "parse_text"
    /\ i < Len(lines)
    /\ ParserLoop(TextLine(lines[i + 1], i + 1, colors))
    /\ UNCHANGED <<hexVars, entry, input_exists, is_json, cut, lines, items, ci,
                   result, out_opened, out_file, ret, exit_code, rgb_in>>

\* parse_json_file: one iteration of the loop over the items.
ParseJsonItem ==
    /\ pc = "parse_json"
    /\ i < Len(items)
    /\ ParserLoop(JsonItem(items[i + 1], i + 1))
    /\ UNCHANGED <<hexVars, entry, input_exists, is_json, cut, lines, items, ci,
                   result, out_opened, out_file, ret, exit_code, rgb_in>>

\* The parser returns its list of colours.
ParserReturn ==
    /\ \/ pc = "parse_text" /\ i = Len(lines)
       \/ pc = "parse_json" /\ i = Len(items)
    /\ pc' = "parsed"
    /\ UNCHANGED <<hexVars, entry, input_exists, is_json, cut, lines, items, i,
                   colors, skipped, ci, result, out_opened, out_file, ret,
                   exit_code, rgb_in>>

\* convert_file: `if not colors: return False`.
CheckColors ==
    /\ pc = "parsed"
    /\ IF NoColors(colors)
       THEN pc' = "returned" /\ ret' = "False"
       ELSE pc' = "convert" /\ UNCHANGED ret
    /\ UNCHANGED <<hexVars, entry, input_exists, is_json, cut, lines, items, i,
                   colors, skipped, ci, result, out_opened, out_file,
                   exit_code, rgb_in>>

\* convert_file: one iteration of the conversion loop. No conversion raises
\* on a colour a parser produced, so the except branch is never taken.
ConvertColor ==
    /\ pc = "convert"
    /\ ci < Len(colors)
    /\ \E lum \in LuminanceTenths(hex_to_rgb(colors[ci + 1].color)) :
           result' = Append(result, color_dict(colors[ci + 1], cut, lum))
    /\ ci' = ci + 1
    /\ UNCHANGED <<hexVars, entry, pc, input_exists, is_json, cut, lines, items,
                   i, colors, skipped, out_opened, out_file, ret, exit_code,
                   rgb_in>>

\* convert_file: the output file is opened, result is dumped, True returned.
Save ==
    /\ pc = "convert"
    /\ ci = Len(colors)
    /\ out_opened' = TRUE
    /\ out_file' = result
    /\ ret' = "True"
    /\ pc' = "returned"
    /\ UNCHANGED <<hexVars, entry, input_exists, is_json, cut, lines, items, i,
                   colors, skipped, ci, result, exit_code, rgb_in>>

\* main: return 0 if success else 1.
MainReturn ==
    /\ pc = "returned"
    /\ entry = "main"
    /\ exit_code' = (IF ret = "True" THEN 0 ELSE 1)
    /\ pc' = "exit"
    /\ UNCHANGED <<hexVars, entry, input_exists, is_json, cut, lines, items, i,
                   colors, skipped, ci, result, out_opened, out_file, ret,
                   rgb_in>>

Next ==
    \/ MainCheckInput
    \/ ConvertFileCheckInput
    \/ ParseTextLine
    \/ ParseJsonItem
    \/ ParserReturn
    \/ CheckColors
    \/ ConvertColor
    \/ Save
    \/ MainReturn

Spec == Init /\ [][Next]_vars

----------------------------------------------------------------------------
(* SpecRgb: the same run on a one-colour input rendered from a triple       *)
(* rgb_in: every value of one channel with the two others at an end of the  *)
(* range, and triples at the boundary of is_light.                          *)

ChannelEnds == {0, 255}

BoundaryTriples ==
    {<<128, 128, 128>>, <<12, 175, 4>>, <<29, 165, 53>>, <<0, 179, 0>>,
     <<171, 205, 239>>, <<1, 35, 69>>}

RgbInputs ==
    {<<a, b, c>> : a \in 0..255, b \in ChannelEnds, c \in ChannelEnds}
    \cup {<<b, a, c>> : a \in 0..255, b \in ChannelEnds, c \in ChannelEnds}
    \cup {<<b, c, a>> : a \in 0..255, b \in ChannelEnds, c \in ChannelEnds}
    \cup BoundaryTriples

\* '#' and two lowercase hex digits per channel.
RenderHex(rgb) ==
    <<"#">> \o [k \in 1..6 |->
                  HexLower[(IF k % 2 = 1 THEN rgb[(k + 1) \div 2] \div 16
                            ELSE rgb[k \div 2] % 16) + 1]]

ToUpper(c) ==
    CASE c = "a" -> "A" [] c = "b" -> "B" [] c = "c" -> "C"
      [] c = "d" -> "D" [] c = "e" -> "E" [] c = "f" -> "F"
      [] OTHER -> c

\* The ways the input writes the colour: "#rrggbb" and "RRGGBB" under a JSON
\* key, "rrggbb x" on a text line, and "#rgb" when each channel repeats its
\* digit.
Forms(rgb) ==
    {"canonical", "upper", "text"}
    \cup (IF \A k \in 1..3 : rgb[k] % 17 = 0 THEN {"short"} ELSE {})

FormItems(rgb, form) ==
    LET h == RenderHex(rgb) IN
    CASE form = "canonical" ->
             <<Dict(JAbsent, JAbsent, JStr(h), JAbsent, JAbsent)>>
      [] form = "upper" ->
             <<Dict(JAbsent, JAbsent, JAbsent,
                    JStr([k \in 1..6 |-> ToUpper(h[k + 1])]), JAbsent)>>
      [] form = "short" ->
             <<Dict(JAbsent, JAbsent, JAbsent, JAbsent,
                    JStr(<<"#", h[2], h[4], h[6]>>))>>
      [] OTHER -> <<>>

FormLines(rgb, form) ==
    IF form = "text" THEN <<Tail(RenderHex(rgb)) \o <<" ", "x", "\n">>>>
    ELSE <<>>

InitRgb ==
    /\ IdleHex
    /\ entry \in {"main", "convert_file"}
    /\ pc = entry
    /\ input_exists = TRUE
    /\ cut \in BOOLEAN
    /\ rgb_in \in RgbInputs
    /\ \E form \in Forms(rgb_in) :
        /\ is_json = (form # "text")
        /\ items = FormItems(rgb_in, form)
        /\ lines = FormLines(rgb_in, form)
    /\ NotStarted

SpecRgb == InitRgb /\ [][Next]_vars

----------------------------------------------------------------------------
(* SpecHex: normalize_hex and extract_hex applied to every string over       *)
(* TokAlphabet of length at most MaxTokLen.                                  *)

TokAlphabet == {"0", "b", "F", "#", "g"}

IdleRun ==
    /\ entry = "none" /\ pc = "idle" /\ input_exists = FALSE
    /\ is_json = FALSE /\ cut = FALSE /\ lines = <<>> /\ items = <<>>
    /\ i = 0 /\ colors = <<>> /\ skipped = {} /\ ci = 0 /\ result = <<>>
    /\ out_opened = FALSE /\ out_file = <<>> /\ ret = "unset"
    /\ exit_code = -1 /\ rgb_in = <<0, 0, 0>>

InitHex ==
    /\ tok = <<>>
    /\ norm = normalize_hex(<<>>)
    /\ ext = extract_hex(<<>>)
    /\ IdleRun

AppendChar ==
    /\ Len(tok) < MaxTokLen
    /\ \E c \in TokAlphabet :
        /\ tok' = Append(tok, c)
        /\ norm' = normalize_hex(tok')
        /\ ext' = extract_hex(tok')
    /\ UNCHANGED runVars

NextHex == AppendChar

SpecHex == InitHex /\ [][NextHex]_vars

----------------------------------------------------------------------------
(* Claims about normalize_hex and extract_hex (SpecHex). *)

Max(S) == CHOOSE x \in S : \A y \in S : y <= x

\* The positions of s that hold a hex digit, and the j-th of them.
DigitPositions(s) == {k \in 1..Len(s) : IsHexDigit(s[k])}

NthPosition(P, j) == CHOOSE x \in P : Cardinality({y \in P : y < x}) = j - 1

UpperLowerPairs == {<<"A", "a">>, <<"B", "b">>, <<"C", "c">>,
                    <<"D", "d">>, <<"E", "e">>, <<"F", "f">>}

\* b is the lowercase form of the hex digit a.
IsLowerOf(a, b) == b \in LowerHexChars /\ (a = b \/ <<a, b>> \in UpperLowerPairs)

\* C1: normalize_hex(s) is decided by the hex digits of s alone: 3 digits
\* give '#' and each digit doubled and lowercased, 6 digits give '#' and the
\* digits lowercased, any other digit count gives None.
C1_NormalizeByDigits ==
    LET P == DigitPositions(tok)
        n == Cardinality(P)
        d(j) == tok[NthPosition(P, j)]
    IN  /\ n = 3 =>
            /\ Len(norm) = 7 /\ norm[1] = "#"
            /\ \A j \in 1..3 : /\ IsLowerOf(d(j), norm[2 * j])
                               /\ IsLowerOf(d(j), norm[2 * j + 1])
        /\ n = 6 =>
            /\ Len(norm) = 7 /\ norm[1] = "#"
            /\ \A j \in 1..6 : IsLowerOf(d(j), norm[j + 1])
        /\ n \notin {3, 6} => norm = None

\* A 3-digit string with an upper-case digit and stray characters inside.
C1_Witness ==
    /\ tok = <<"F", "#", "b", "g", "0">>
    /\ norm = <<"#", "f", "f", "b", "b", "0", "0">>

\* The token without its leading separator characters.
Stripped(t) ==
    LET m == Max({k \in 0..Len(t) : \A j \in 1..k : t[j] \in ExtractStrip})
    IN  SubSeq(t, m + 1, Len(t))

DigitCount(s) == Cardinality(DigitPositions(s))

----------------------------------------------------------------------------
(* Claims about the parsers and convert_file (Spec). *)

Rec(id, name, color) == [id |-> id, name |-> name, color |-> color]

\* The parser has gone through the whole input.
ParserFinished == pc \in {"parsed", "convert", "returned", "exit"}

\* The first whitespace-separated token of a line that has one.
FirstToken(raw) == Split(Strip(raw))[1]

\* t is '#' followed by exactly 6 hex digits.
IsHashHex6(t) == Len(t) = 7 /\ t[1] = "#" /\ \A k \in 2..7 : IsHexDigit(t[k])

\* C3: the lines '#ff0000 Red Apple', '# a comment', 'fff Snow' yield exactly
\* the records (001, Red Apple, #ff0000) and (003, Snow, #ffffff); in general
\* a line whose first token is a '#'-prefixed 6-digit hex colour yields a
\* record.
C3_ExampleYieldsTwoRecords ==
    (input_exists /\ ~is_json) =>
        /\ (ParserFinished /\ lines = <<LineRedApple, LineComment, LineSnow>>) =>
               colors = <<Rec(<<"0", "0", "1">>,
                              <<"R", "e", "d", " ", "A", "p", "p", "l", "e">>,
                              <<"#", "f", "f", "0", "0", "0", "0">>),
                          Rec(<<"0", "0", "3">>, <<"S", "n", "o", "w">>,
                              <<"#", "f", "f", "f", "f", "f", "f">>)>>
        /\ \A k \in 1..i :
               (Split(Strip(lines[k])) # <<>> /\ IsHashHex6(FirstToken(lines[k])))
                   => k \notin skipped

\* The value of a string of decimal digits.
RECURSIVE DecimalValue(_)
DecimalValue(d) ==
    IF d = <<>> THEN 0
    ELSE 10 * DecimalValue(SubSeq(d, 1, Len(d) - 1))
         + (CHOOSE v \in 0..9 : DecimalDigit[v + 1] = d[Len(d)])

IsDigits(d) == \A k \in 1..Len(d) : d[k] \in {DecimalDigit[v] : v \in 1..10}

\* What C4 says of the records apart from the width of the id: each line
\* gives at most one record, the records keep the lines' order, each id is
\* the position of its line among all lines, the ids increase strictly, and
\* an id equals the count of accepted records exactly when no earlier line
\* was skipped.
IdsAreLinePositions ==
    LET pos(k) == DecimalValue(colors[k].id) IN
    /\ Len(colors) + Cardinality(skipped) = i
    /\ \A k \in 1..Len(colors) :
        /\ IsDigits(colors[k].id)
        /\ pos(k) \in (1..i) \ skipped
        /\ colors[k].color = extract_hex(FirstToken(lines[pos(k)]))
        /\ k > 1 => pos(k - 1) < pos(k)
        /\ (pos(k) = k) <=> (\A q \in 1..(pos(k) - 1) : q \notin skipped)

\* C4 as stated: the above, and every id is the position zero-padded to
\* exactly 3 digits.
C4_IdsAreThreeDigits ==
    (input_exists /\ ~is_json) =>
        /\ IdsAreLinePositions
        /\ \A k \in 1..Len(colors) : Len(colors[k].id) = 3

\* C4, amended: the above, and every id is the position zero-padded to at
\* least 3 digits: exactly 3 below line 1000, unpadded from line 1000 on.
C4_TextIdsAreLinePositions ==
    (input_exists /\ ~is_json) =>
        /\ IdsAreLinePositions
        /\ \A k \in 1..Len(colors) :
            /\ Len(colors[k].id) >= 3
            /\ DecimalValue(colors[k].id) < 1000 => Len(colors[k].id) = 3
            /\ Len(colors[k].id) > 3 => colors[k].id[1] # "0"

\* Two records around a skipped line: the second carries 003, not 002.
C4_Witness ==
    /\ ~is_json /\ pc = "parsed"
    /\ lines = <<LineSnow, LineBlank, LineSeparators>>
    /\ skipped = {2}
    /\ Len(colors) = 2
    /\ colors[2].id = <<"0", "0", "3">>

\* C5: every record of either parser has a non-empty id and a non-empty
\* name, whatever the item's own id and name fields hold.
C5_IdAndNameNonEmpty ==
    \A k \in 1..Len(colors) : colors[k].id # <<>> /\ colors[k].name # <<>>

\* An item whose selected colour value is a string that normalizes.
WellFormed(item) ==
    /\ item.t = "dict"
    /\ ColorValue(item).t = "str"
    /\ normalize_hex(ColorValue(item).s) # None

\* C6: in the structured variant no item aborts the batch or surfaces an
\* error: every item that is no mapping, lacks a colour key or holds a colour
\* value that does not normalize (empty, null, a number, a list) is skipped
\* and every other item is parsed and emitted.
C6_MalformedItemsAreSkipped ==
    (input_exists /\ is_json) =>
        /\ pc # "raised"
        /\ Len(colors) = Cardinality({k \in 1..i : WellFormed(items[k])})
        /\ skipped = {k \in 1..i : ~WellFormed(items[k])}

\* C7: when the parser yields no record, or the input does not exist,
\* convert_file returns False, main exits with 1 and the output file is
\* never opened; it is opened only after the parser yielded a record.
C7_NoOutputWithoutColors ==
    /\ out_opened => (input_exists /\ colors # <<>> /\ ParserFinished)
    /\ (pc = "returned" /\ (~input_exists \/ colors = <<>>)) =>
           ret = "False" /\ ~out_opened
    /\ (pc = "exit" /\ (~input_exists \/ colors = <<>>)) =>
           exit_code = 1 /\ ret # "True" /\ ~out_opened
    /\ (pc = "exit" /\ exit_code = 0) => (ret = "True" /\ out_opened)

\* A run of main on a text file none of whose lines holds a colour.
C7_Witness ==
    /\ entry = "main" /\ pc = "exit" /\ input_exists
    /\ lines = <<LineRedApple, LineNoColor>>
    /\ colors = <<>> /\ ret = "False" /\ exit_code = 1 /\ ~out_opened

CutKeys == <<"id", "name", "hex", "rgb", "rgb_norm", "hsl">>

FullKeys == CutKeys \o <<"hsv", "lab", "cmyk", "luminance", "is_light">>

\* C8: every emitted record carries id, name, hex, rgb, rgb_norm, hsl in that
\* order, and nothing else when cut is true, and followed by hsv, lab, cmyk,
\* luminance, is_light when cut is false.
C8_FieldsByCut ==
    /\ \A k \in 1..Len(result) :
           Keys(result[k]) = (IF cut THEN CutKeys ELSE FullKeys)
    /\ \A k \in 1..Len(out_file) :
           Keys(out_file[k]) = (IF cut THEN CutKeys ELSE FullKeys)

\* Two records written in cut mode.
C8_Witness ==
    /\ cut /\ out_opened /\ Len(out_file) = 2
    /\ Keys(out_file[2]) = CutKeys

----------------------------------------------------------------------------
(* Claims about hex_to_rgb and is_light (SpecRgb). *)

\* h is '#' followed by exactly 6 lowercase hex digits.
IsCanonicalHex(h) ==
    Len(h) = 7 /\ h[1] = "#" /\ \A k \in 2..7 : h[k] \in LowerHexChars

\* The colour string the one-colour input holds.
InputColor ==
    IF is_json THEN ColorValue(items[1]).s ELSE FirstToken(lines[1])

\* C9: hex_to_rgb of the two-digit-per-channel rendering of a triple is the
\* triple, and every emitted record's hex is '#' and 6 lowercase hex digits,
\* is what normalize_hex made of the input, and is the rendering of the
\* record's rgb.
C9_HexRgbRoundTrip ==
    /\ hex_to_rgb(RenderHex(rgb_in)) = rgb_in
    /\ \A k \in 1..Len(result) :
        LET hex == Get(result[k], "hex")
            rgb == Get(result[k], "rgb")
        IN  /\ IsCanonicalHex(hex)
            /\ hex = normalize_hex(InputColor)
            /\ hex = RenderHex(rgb)
            /\ rgb = rgb_in
            /\ \A c \in 1..3 : rgb[c] \in 0..255

\* A record emitted for an upper-case input.
C9_Witness ==
    /\ rgb_in = <<171, 205, 239>>
    /\ is_json /\ ColorValue(items[1]).s = <<"A", "B", "C", "D", "E", "F">>
    /\ out_opened /\ Len(out_file) = 1
    /\ Get(out_file[1], "hex") = <<"#", "a", "b", "c", "d", "e", "f">>
    /\ Get(out_file[1], "rgb") = <<171, 205, 239>>

\* C10: is_light is true exactly when 2126*R + 7152*G + 722*B > 1280000:
\* white is light, black is not, and (128, 128, 128), whose sum is exactly
\* 128, is not.
C10_IsLightAbove128 ==
    \A k \in 1..Len(result) :
        HasKey(result[k], "is_light") =>
            LET light == Get(result[k], "is_light") IN
            /\ light = (2126 * rgb_in[1] + 7152 * rgb_in[2] + 722 * rgb_in[3]
                        > 1280000)
            /\ rgb_in = <<255, 255, 255>> => light
            /\ rgb_in = <<0, 0, 0>> => ~light
            /\ rgb_in = <<128, 128, 128>> => ~light

\* A light record whose luminance field, rounded to one decimal, is 128.0.
C10_Witness ==
    /\ out_opened /\ Len(out_file) = 1
    /\ HasKey(out_file[1], "is_light")
    /\ Get(out_file[1], "luminance") = 1280
    /\ Get(out_file[1], "is_light") = TRUE

====
